---------------------------- MODULE Spec2Model ----------------------------
(***************************************************************************)
(* Parkmaster service (Calvin CS262 Fall 2025, Team I).                    *)
(*                                                                         *)
(* The repository holds two Express services over one PostgreSQL schema:   *)
(*   - src/server.js            (node-postgres; handlers named Srv...)     *)
(*   - src/unnamed/part_001     (pg-promise;    handlers named Pgp...)     *)
(* and the schema itself in src/unnamed/part_000 (schema.sql).             *)
(*                                                                         *)
(* The state is the content of the database tables plus, per client, the   *)
(* request that client has in flight and the response it got.  A handler   *)
(* is two steps: Send (the request reaches the service) and the handler    *)
(* action proper (the single SQL statement the handler issues, executed    *)
(* atomically by PostgreSQL, and the response the handler derives from it).*)
(* Requests of different clients interleave between those two steps.       *)
(*                                                                         *)
(* Encodings: dates are day numbers (weekday = day % 7), times are whole   *)
(* hours, SQL NULL / JS null and JS undefined are the values Null / Undef  *)
(* (NullS / UndefS for text columns).  The free-text columns location and  *)
(* parking_lot of a schedule and the timestamps updated_at are not part of *)
(* the state; created_at is kept as a day number.  merged_aisles is the    *)
(* JSON list of aisle coordinates <<row, col>>; spaces is left out.        *)
(***************************************************************************)
EXTENDS Integers, Sequences, FiniteSets, TLC

VARIABLES parking_lots, parking_lots_id_seq, spots, users, schedules, schedules_id_seq,
          issues, issues_id_seq, today, req

vars == <<parking_lots, parking_lots_id_seq, spots, users, schedules, schedules_id_seq, issues, issues_id_seq, today, req>>

(***************************************************************************)
(* Value encodings                                                         *)
(***************************************************************************)
Null == 0 - 1
Undef == 0 - 2
NullS == "NULL"
UndefS == "UNDEFINED"

(***************************************************************************)
(* Bounds of the model                                                     *)
(***************************************************************************)
\* schedules_id_seq never hands out an id above this
MaxScheduleId == 2
\* the clock stops here
MaxDay == 1

(***************************************************************************)
(* Schema (src/unnamed/part_000)                                           *)
(***************************************************************************)
ScheduleStatuses == {"pending", "active", "completed", "cancelled"}

SpotStatuses == {"available", "occupied", "reserved", "disabled"}

\* sample data: North Lot is 4 x 10, South Lot 3 x 8, East Lot 5 x 12
NorthRows == 4
NorthCols == 10
SouthRows == 3
SouthCols == 8
EastRows == 5
EastCols == 12

SampleLots ==
    { [id |-> 1, name |-> "North Lot", rows |-> NorthRows, cols |-> NorthCols, merged_aisles |-> <<>>],
      [id |-> 2, name |-> "South Lot", rows |-> SouthRows, cols |-> SouthCols, merged_aisles |-> <<>>],
      [id |-> 3, name |-> "East Lot",  rows |-> EastRows,  cols |-> EastCols,  merged_aisles |-> <<>>] }

\* INSERT INTO spots ... SELECT 1, 'A' || n, (n - 1) / 10, (n - 1) % 10, 'available'
\*   FROM generate_series(1, 40)
SampleSpots ==
    { [id |-> n, parking_lot_id |-> 1, spot_number |-> "A" \o ToString(n),
       row_number |-> (n - 1) \div NorthCols, col_number |-> (n - 1) % NorthCols,
       status |-> "available"] : n \in 1..(NorthRows * NorthCols) }

\* the placeholder every sample row carries as its password hash
SampleHash == "$2b$10$rKZrF8qVzKJx8J9kZ8Z8"

SampleUsers ==
    { [id |-> 1, name |-> "Admin User", email |-> "admin@calvin.edu",     password_hash |-> SampleHash,
       role |-> "admin", status |-> "active"],
      [id |-> 2, name |-> "Max Wu",     email |-> "max.wu@calvin.edu",    password_hash |-> SampleHash,
       role |-> "user",  status |-> "active"],
      [id |-> 3, name |-> "Simon T",    email |-> "simon.t@calvin.edu",   password_hash |-> SampleHash,
       role |-> "user",  status |-> "active"],
      [id |-> 4, name |-> "Genevieve",  email |-> "genevieve@calvin.edu", password_hash |-> SampleHash,
       role |-> "admin", status |-> "active"] }


(***************************************************************************)
(* Requests and responses                                                  *)
(***************************************************************************)
NoBody ==
    [user_id |-> Undef, parking_lot_id |-> Undef, spot_number |-> UndefS,
     start_time |-> Undef, end_time |-> Undef, date |-> Undef,
     is_recurring |-> FALSE, recurring_days |-> {}, status |-> UndefS]

NoResp == [code |-> 0, error |-> "", details |-> FALSE, data |-> Null]

IdleReq == [pc |-> "idle", op |-> "none", id |-> Null, body |-> NoBody, resp |-> NoResp]

\* the request of client c is in flight for handler op
InFlight(c, op) == req[c].pc = "sent" /\ req[c].op = op

\* the handler of client c's request answers with r
Respond(c, r) == req' = [req EXCEPT ![c] = [@ EXCEPT !.pc = "done", !.resp = r]]

\* node-postgres sends an undefined parameter as NULL
PgParam(v) == IF v = Undef THEN Null ELSE v

PgParamS(v) == IF v = UndefS THEN NullS ELSE v

\* pg-promise refuses to format a query naming a property the object lacks
\* (is_recurring, recurring_days, location and parking_lot are taken as present)
PgpFormats(b) ==
    /\ b.user_id # Undef
    /\ b.parking_lot_id # Undef
    /\ b.spot_number # UndefS
    /\ b.start_time # Undef
    /\ b.end_time # Undef
    /\ b.date # Undef
    /\ b.status # UndefS

(***************************************************************************)
(* The schedules table                                                     *)
(***************************************************************************)
\* the closed-interval comparison a conflict check might have been written with
ScheduleRowOk_ClosedConflict(row) ==
    /\ row.start_time # Null
    /\ row.end_time # Null
    /\ row.date # Null
    /\ row.status \in ScheduleStatuses \cup {NullS}
    /\ row.user_id = Null \/ \E u \in users : u.id = row.user_id
    /\ row.parking_lot_id = Null \/ \E l \in parking_lots : l.id = row.parking_lot_id
    /\ ~ \E s \in schedules :
           /\ s.id # row.id
           /\ s.parking_lot_id = row.parking_lot_id
           /\ s.spot_number = row.spot_number
           /\ s.date = row.date
           /\ s.start_time <= row.end_time
           /\ row.start_time <= s.end_time

\* a table that also refuses a booking dated before the day it is created on
ScheduleRowOk_NotInPast(row) ==
    /\ row.start_time # Null
    /\ row.end_time # Null
    /\ row.date # Null
    /\ row.status \in ScheduleStatuses \cup {NullS}
    /\ row.user_id = Null \/ \E u \in users : u.id = row.user_id
    /\ row.parking_lot_id = Null \/ \E l \in parking_lots : l.id = row.parking_lot_id
    /\ row.date >= row.created_at

\* what PostgreSQL demands of a schedules row: NOT NULL, CHECK and the foreign keys
ScheduleRowOk(row) ==
    /\ row.start_time # Null
    /\ row.end_time # Null
    /\ row.date # Null
    /\ row.status \in ScheduleStatuses \cup {NullS}
    /\ row.user_id = Null \/ \E u \in users : u.id = row.user_id
    /\ row.parking_lot_id = Null \/ \E l \in parking_lots : l.id = row.parking_lot_id

\* the row an INSERT or UPDATE writes from the statement's parameters
ScheduleRow(id, b, status, created) ==
    [id |-> id, user_id |-> b.user_id, parking_lot_id |-> b.parking_lot_id,
     spot_number |-> b.spot_number, start_time |-> b.start_time,
     end_time |-> b.end_time, date |-> b.date, is_recurring |-> b.is_recurring,
     recurring_days |-> b.recurring_days, status |-> status, created_at |-> created]

\* server.js: the destructured body as the parameter list of the INSERT
SrvScheduleParams(b) ==
    [b EXCEPT !.user_id = PgParam(b.user_id),
              !.parking_lot_id = PgParam(b.parking_lot_id),
              !.spot_number = PgParamS(b.spot_number),
              !.start_time = PgParam(b.start_time),
              !.end_time = PgParam(b.end_time),
              !.date = PgParam(b.date)]

\* server.js stores the literal 'pending'
SrvInsertStatus(b) == "pending"

\* part_001 stores ${status} of the body
PgpInsertStatus(b) == b.status

(***************************************************************************)
(* POST /api/schedules, server.js                                          *)
(***************************************************************************)
SrvPostSchedule(c) ==
    /\ InFlight(c, "SrvPostSchedule")
    /\ LET b == SrvScheduleParams(req[c].body)
           row == ScheduleRow(schedules_id_seq, b, SrvInsertStatus(req[c].body), today)
       IN IF ScheduleRowOk(row)
          THEN /\ schedules' = schedules \cup {row}
               /\ schedules_id_seq' = schedules_id_seq + 1
               /\ Respond(c, [code |-> 201, error |-> "", details |-> FALSE, data |-> row.id])
          ELSE /\ Respond(c, [code |-> 500, error |-> "Failed to create schedule",
                               details |-> TRUE, data |-> Null])
               /\ UNCHANGED <<schedules, schedules_id_seq>>
    /\ UNCHANGED <<parking_lots, parking_lots_id_seq, spots, users, issues, issues_id_seq, today>>

(***************************************************************************)
(* handleError + global error handler, part_001                            *)
(***************************************************************************)
PgpError == [code |-> 500, error |-> "Internal server error", details |-> FALSE, data |-> Null]

HandleError_Swallowed(c) == UNCHANGED req

\* handleError(res, error, next): every caller passes next, so the error goes
\* to the global error handler, which answers
HandleError(c) == Respond(c, PgpError)

\* returnDataOr404 on no row
PgpNotFound == [code |-> 404, error |-> "Not Found", details |-> FALSE, data |-> Null]

(***************************************************************************)
(* POST /api/schedules, part_001                                           *)
(***************************************************************************)
PgpPostSchedule(c) ==
    /\ InFlight(c, "PgpPostSchedule")
    /\ LET b == req[c].body
           row == ScheduleRow(schedules_id_seq, b, PgpInsertStatus(b), today)
       IN IF PgpFormats(b) /\ ScheduleRowOk(row)
          THEN /\ schedules' = schedules \cup {row}
               /\ schedules_id_seq' = schedules_id_seq + 1
               /\ Respond(c, [code |-> 201, error |-> "", details |-> FALSE, data |-> row.id])
          ELSE /\ HandleError(c)
               /\ UNCHANGED <<schedules, schedules_id_seq>>
    /\ UNCHANGED <<parking_lots, parking_lots_id_seq, spots, users, issues, issues_id_seq, today>>

(***************************************************************************)
(* PUT /api/schedules/:id, part_001                                        *)
(***************************************************************************)
PgpPutSchedule(c) ==
    /\ InFlight(c, "PgpPutSchedule")
    /\ LET b == req[c].body
           old == {s \in schedules : s.id = req[c].id}
           new == {ScheduleRow(s.id, b, b.status, s.created_at) : s \in old}
       IN IF ~ PgpFormats(b)
          THEN HandleError(c) /\ UNCHANGED schedules
          ELSE IF old = {}
          THEN Respond(c, PgpNotFound) /\ UNCHANGED schedules
          ELSE IF \A r \in new : ScheduleRowOk(r)
          THEN /\ schedules' = (schedules \ old) \cup new
               /\ Respond(c, [code |-> 200, error |-> "", details |-> FALSE, data |-> req[c].id])
          ELSE HandleError(c) /\ UNCHANGED schedules
    /\ UNCHANGED <<parking_lots, parking_lots_id_seq, spots, users, schedules_id_seq, issues, issues_id_seq, today>>

(***************************************************************************)
(* DELETE /api/schedules/:id, part_001                                     *)
(***************************************************************************)
PgpDeleteSchedule(c) ==
    /\ InFlight(c, "PgpDeleteSchedule")
    /\ LET old == {s \in schedules : s.id = req[c].id}
       IN IF old = {}
          THEN Respond(c, PgpNotFound) /\ UNCHANGED schedules
          ELSE /\ schedules' = schedules \ old
               /\ Respond(c, [code |-> 200, error |-> "", details |-> FALSE, data |-> req[c].id])
    /\ UNCHANGED <<parking_lots, parking_lots_id_seq, spots, users, schedules_id_seq, issues, issues_id_seq, today>>


(***************************************************************************)
(* Requests arriving, the clock, and the spot registry                     *)
(***************************************************************************)
CanSend(c) == req[c].pc \in {"idle", "done"}

\* ids the sequence may still hand out, counting the inserts already in flight
\* (PostgreSQL also draws an id for an INSERT that fails; ids only have to be
\* fresh, so the model draws one per stored row)
IdsLeft ==
    schedules_id_seq
      + Cardinality({c \in DOMAIN req : /\ req[c].pc = "sent"
                                        /\ req[c].op \in {"SrvPostSchedule", "PgpPostSchedule"}})
      <= MaxScheduleId

SendPostSchedule(c, op, b) ==
    /\ CanSend(c)
    /\ IdsLeft
    /\ req' = [req EXCEPT ![c] = [pc |-> "sent", op |-> op, id |-> Null, body |-> b, resp |-> NoResp]]
    /\ UNCHANGED <<parking_lots, parking_lots_id_seq, spots, users, schedules, schedules_id_seq, issues, issues_id_seq, today>>

SendPutSchedule(c, id, b) ==
    /\ CanSend(c)
    /\ req' = [req EXCEPT ![c] = [pc |-> "sent", op |-> "PgpPutSchedule", id |-> id, body |-> b, resp |-> NoResp]]
    /\ UNCHANGED <<parking_lots, parking_lots_id_seq, spots, users, schedules, schedules_id_seq, issues, issues_id_seq, today>>

SendDeleteSchedule(c, id) ==
    /\ CanSend(c)
    /\ req' = [req EXCEPT ![c] = [pc |-> "sent", op |-> "PgpDeleteSchedule", id |-> id, body |-> NoBody, resp |-> NoResp]]
    /\ UNCHANGED <<parking_lots, parking_lots_id_seq, spots, users, schedules, schedules_id_seq, issues, issues_id_seq, today>>

\* CURRENT_TIMESTAMP moves on
Tick ==
    /\ today < MaxDay
    /\ today' = today + 1
    /\ UNCHANGED <<parking_lots, parking_lots_id_seq, spots, users, schedules, schedules_id_seq,
                   issues, issues_id_seq, req>>

\* SpotRegistry.setManualStatus(spotId, status): no handler of the services writes
\* spots.status; the operation is the specification's (section 4.2)
SetManualStatus(spotId, status) ==
    /\ \E sp \in spots : sp.id = spotId
    /\ status \in {"available", "disabled"}
    /\ spots' = {IF sp.id = spotId THEN [sp EXCEPT !.status = status] ELSE sp : sp \in spots}
    /\ spots' # spots
    /\ UNCHANGED <<parking_lots, parking_lots_id_seq, users, schedules, schedules_id_seq, issues, issues_id_seq, today, req>>

(***************************************************************************)
(* Initial state: the schema's sample data, no schedule yet                *)
(***************************************************************************)
InitDb ==
    /\ parking_lots = SampleLots
    /\ parking_lots_id_seq = Cardinality(SampleLots) + 1
    /\ spots = SampleSpots
    /\ users = SampleUsers
    /\ schedules = {}
    /\ schedules_id_seq = 1
    /\ issues = {}
    /\ issues_id_seq = 1
    /\ today = 0

Init == InitDb /\ req = [c \in {1} |-> IdleReq]


(***************************************************************************)
(* Request bodies the clients draw from                                    *)
(***************************************************************************)
\* one-shot booking of spot A1 of the North Lot on day 7, 09:00-10:00
BaseBody ==
    [user_id |-> 2, parking_lot_id |-> 1, spot_number |-> "A1",
     start_time |-> 9, end_time |-> 10, date |-> 7,
     is_recurring |-> FALSE, recurring_days |-> {}, status |-> "pending"]

\* the three proper ranges over 9..11, an empty and a reversed one, and another spot
TimeBodies ==
    {[BaseBody EXCEPT !.start_time = s, !.end_time = e] : s \in {9, 10}, e \in {10, 11}}
      \cup {[BaseBody EXCEPT !.start_time = 10, !.end_time = 9],
            [BaseBody EXCEPT !.spot_number = "A2"]}

RecurBodies ==
    {[BaseBody EXCEPT !.is_recurring = TRUE, !.recurring_days = d, !.date = 0] : d \in {{0}, {1}, {}, {8}}}
      \cup {[BaseBody EXCEPT !.date = dt, !.start_time = s] : dt \in {0, 7, 8}, s \in {9, 10}}

SpotBodies ==
    {[BaseBody EXCEPT !.spot_number = sp, !.parking_lot_id = l, !.start_time = s]
        : sp \in {"A1", "A41"}, l \in {1, 2, 9}, s \in {9, 10}}
      \cup {[BaseBody EXCEPT !.is_recurring = TRUE]}

StatusBodies ==
    {[BaseBody EXCEPT !.status = st] : st \in ScheduleStatuses \cup {NullS, UndefS, "bogus"}}
      \cup {[BaseBody EXCEPT !.date = Undef], [BaseBody EXCEPT !.user_id = 9]}

ConcBodies ==
    {[BaseBody EXCEPT !.start_time = s, !.end_time = e] : s \in {9, 10}, e \in {10, 11}}

PostOps == {"SrvPostSchedule", "PgpPostSchedule"}

ScheduleIds == 1..MaxScheduleId

(***************************************************************************)
(* Next-state relations                                                    *)
(***************************************************************************)
NextSchedules(Cs, Bs) ==
    \/ \E c \in Cs, op \in PostOps, b \in Bs : SendPostSchedule(c, op, b)
    \/ \E c \in Cs, id \in ScheduleIds, b \in Bs : SendPutSchedule(c, id, b)
    \/ \E c \in Cs, id \in ScheduleIds : SendDeleteSchedule(c, id)
    \/ \E c \in Cs : SrvPostSchedule(c)
    \/ \E c \in Cs : PgpPostSchedule(c)
    \/ \E c \in Cs : PgpPutSchedule(c)
    \/ \E c \in Cs : PgpDeleteSchedule(c)
    \/ Tick

\* the handlers alone: the requests are already in flight
NextHandle(Cs) ==
    \/ \E c \in Cs : SrvPostSchedule(c)
    \/ \E c \in Cs : PgpPostSchedule(c)

NextSpots(Cs, Bs) ==
    \/ NextSchedules(Cs, Bs)
    \/ \E st \in SpotStatuses : SetManualStatus(1, st)

\* bookings of one spot on one day, all time ranges
Spec == Init /\ [][NextSchedules({1}, TimeBodies)]_vars

\* recurring and one-shot bookings
SpecRecur == Init /\ [][NextSchedules({1}, RecurBodies)]_vars

\* spot labels and lots, with the spot registry
SpecSpots == Init /\ [][NextSpots({1}, SpotBodies)]_vars

\* the status a request asks for
SpecStatus == Init /\ [][NextSchedules({1}, StatusBodies)]_vars

\* two creation requests arrive together at the fresh database
InitConc ==
    /\ InitDb
    /\ req \in [{1, 2} -> {[pc |-> "sent", op |-> op, id |-> Null, body |-> b, resp |-> NoResp]
                              : op \in PostOps, b \in ConcBodies}]

\* two clients creating schedules concurrently
SpecConc == InitConc /\ [][NextHandle({1, 2})]_vars


(***************************************************************************)
(* The notions the claims are stated in (specification sections 3, 4.3)    *)
(***************************************************************************)
Weekday(d) == d % 7

Weekdays == 0..6

\* the calendar the overlap test ranges over: past every date and creation day in use
CalendarDays == 0..(MaxDay + 14)

NonCancelled(s) == s.status # "cancelled"

SameSpot(a, b) == a.parking_lot_id = b.parking_lot_id /\ a.spot_number = b.spot_number

\* half-open intervals [start_time, end_time)
TimesIntersect(a, b) == a.start_time < b.end_time /\ b.start_time < a.end_time

InEffect(s, d) ==
    IF s.is_recurring
    THEN d >= s.created_at /\ Weekday(d) \in s.recurring_days
    ELSE d = s.date

Conflict(a, b) ==
    /\ SameSpot(a, b)
    /\ TimesIntersect(a, b)
    /\ \E d \in CalendarDays : InEffect(a, d) /\ InEffect(b, d)

\* the schedule a creation request asks for, were it stored now
Proposed(b) == ScheduleRow(0, b, "pending", today)

IsParkable(l, r, k) ==
    /\ 0 <= r /\ r < l.rows
    /\ 0 <= k /\ k < l.cols
    /\ \A i \in DOMAIN l.merged_aisles : l.merged_aisles[i] # <<r, k>>

\* SpotRegistry.lookup: the spots of lot lotId labelled label on a parkable coordinate
Lookup(lotId, label) ==
    {sp \in spots : /\ sp.parking_lot_id = lotId
                    /\ sp.spot_number = label
                    /\ \E l \in parking_lots : l.id = lotId /\ IsParkable(l, sp.row_number, sp.col_number)}

ValidSpot(b) == Lookup(b.parking_lot_id, b.spot_number) # {}

SpotEnabled(b) == \A sp \in Lookup(b.parking_lot_id, b.spot_number) : sp.status # "disabled"

ValidTimeRange(b) == b.start_time < b.end_time

ValidRecurrence(b) == b.is_recurring => (b.recurring_days # {} /\ b.recurring_days \subseteq Weekdays)

Conflicting(b) == {s \in schedules : NonCancelled(s) /\ Conflict(s, Proposed(b))}

\* the reason propose() reports: the first failing check, "" when none fails
FirstFailure(b) ==
    IF ~ ValidSpot(b) THEN "InvalidSpot"
    ELSE IF ~ SpotEnabled(b) THEN "SpotDisabled"
    ELSE IF ~ ValidTimeRange(b) THEN "InvalidTimeRange"
    ELSE IF ~ ValidRecurrence(b) THEN "InvalidRecurrence"
    ELSE IF Conflicting(b) # {} THEN "ScheduleConflict"
    ELSE ""

\* how many of the five checks the request fails
Failures(b) ==
    Cardinality({k \in 1..5 :
        \/ k = 1 /\ ~ ValidSpot(b)
        \/ k = 2 /\ ValidSpot(b) /\ ~ SpotEnabled(b)
        \/ k = 3 /\ ~ ValidTimeRange(b)
        \/ k = 4 /\ ~ ValidRecurrence(b)
        \/ k = 5 /\ Conflicting(b) # {}})

\* this step is the handler of client c's creation request answering
Creates(c) == req[c].pc = "sent" /\ req[c].op \in PostOps /\ req'[c].pc = "done"

Accepted(c) == req'[c].resp.code = 201

Clients == DOMAIN req


(***************************************************************************)
(* Claims                                                                  *)
(***************************************************************************)

\* C1: in every reachable state, any two distinct stored schedules of one spot
\* that are both non-cancelled share no occurrence (no date on which both are
\* in effect with intersecting [start_time, end_time)).
C1_NoOverlap ==
    \A a \in schedules, b \in schedules :
        (a.id # b.id /\ NonCancelled(a) /\ NonCancelled(b)) => ~ Conflict(a, b)

\* C2: of two creation requests for the same spot with overlapping occurrences
\* that are in flight together, at most one is accepted and stored, whatever
\* the order in which their statements run.
C2_AtMostOneAccepted ==
    (/\ req[1].pc = "done"
     /\ req[2].pc = "done"
     /\ ValidTimeRange(req[1].body)
     /\ ValidTimeRange(req[2].body)
     /\ Conflict(Proposed(req[1].body), Proposed(req[2].body)))
    => ~ (/\ req[1].resp.code = 201
          /\ req[2].resp.code = 201
          /\ \E a \in schedules, b \in schedules :
                a.id = req[1].resp.data /\ b.id = req[2].resp.data /\ a.id # b.id)

\* C3: a creation request that passes the other checks and whose interval
\* intersects that of an existing non-cancelled schedule of the same spot on
\* the same date is answered 409 naming that schedule, and no row is stored.
C3_ConflictRejected ==
    [][\A c \in Clients :
        (/\ Creates(c)
         /\ FirstFailure(req[c].body) = "ScheduleConflict"
         /\ \E s \in Conflicting(req[c].body) : s.date = req[c].body.date)
        => (/\ req'[c].resp.code = 409
            /\ req'[c].resp.data \in {s.id : s \in Conflicting(req[c].body)}
            /\ schedules' = schedules)]_vars

\* C4: a well-formed booking that starts when an existing booking of the same
\* spot and date ends (or ends when it starts), and conflicts with no stored
\* schedule, is accepted: it is answered 201 and stored beside the other.
C4_BackToBackAccepted ==
    [][\A c \in Clients :
        (/\ Creates(c)
         /\ PgpFormats(req[c].body)
         /\ FirstFailure(req[c].body) = ""
         /\ \E s \in schedules :
               /\ NonCancelled(s)
               /\ SameSpot(s, req[c].body)
               /\ s.date = req[c].body.date
               /\ ~ s.is_recurring
               /\ ValidTimeRange(s)
               /\ (s.end_time = req[c].body.start_time \/ req[c].body.end_time = s.start_time))
        => (/\ Accepted(c)
            /\ schedules \subseteq schedules'
            /\ \E n \in schedules' \ schedules :
                  /\ n.id = req'[c].resp.data
                  /\ SameSpot(n, req[c].body)
                  /\ n.date = req[c].body.date
                  /\ n.start_time = req[c].body.start_time
                  /\ n.end_time = req[c].body.end_time)]_vars

\* C4 witness: two non-cancelled one-shot bookings of one spot and date are
\* stored, the later-created one starting exactly when the other ends.
C4_Witness ==
    \E a \in schedules, b \in schedules :
        /\ a.id < b.id
        /\ NonCancelled(a) /\ NonCancelled(b)
        /\ SameSpot(a, b)
        /\ a.date = b.date
        /\ ~ a.is_recurring /\ ~ b.is_recurring
        /\ ValidTimeRange(a) /\ ValidTimeRange(b)
        /\ a.end_time = b.start_time
        /\ \E c \in Clients : req[c].pc = "done" /\ req[c].op \in PostOps
                                /\ req[c].resp.code = 201 /\ req[c].resp.data = b.id

\* C5: a one-shot booking is rejected when an existing non-cancelled recurring
\* schedule of the same spot has the booking's weekday in its recurring_days,
\* the booking's date is on or after that schedule's creation date, and the
\* two intervals intersect.
C5_RecurringBlocksOneShot ==
    [][\A c \in Clients :
        (/\ Creates(c)
         /\ ~ req[c].body.is_recurring
         /\ \E s \in schedules :
               /\ NonCancelled(s)
               /\ s.is_recurring
               /\ SameSpot(s, req[c].body)
               /\ Weekday(req[c].body.date) \in s.recurring_days
               /\ req[c].body.date >= s.created_at
               /\ TimesIntersect(s, req[c].body))
        => (~ Accepted(c) /\ schedules' = schedules)]_vars

\* C6: a creation request that fails more than one check is answered with the
\* reason of the first failing check in the order InvalidSpot, SpotDisabled,
\* InvalidTimeRange, InvalidRecurrence, ScheduleConflict.
C6_FirstFailureReported ==
    [][\A c \in Clients :
        (Creates(c) /\ Failures(req[c].body) > 1)
        => req'[c].resp.error = FirstFailure(req[c].body)]_vars

\* C7: every stored schedule has start_time < end_time.
C7_StartBeforeEnd == \A s \in schedules : s.start_time < s.end_time

\* C8: every stored schedule names a spot that exists in its lot on a parkable
\* coordinate.
C8_SpotExists == \A s \in schedules : Lookup(s.parking_lot_id, s.spot_number) # {}

\* C9: a creation request for a spot whose manual status is disabled is not
\* accepted and stores nothing, and disabling a spot leaves every stored
\* schedule as it is.
C9_DisabledSpotNotBooked ==
    [][/\ \A c \in Clients :
            (Creates(c) /\ ValidSpot(req[c].body) /\ ~ SpotEnabled(req[c].body))
            => (~ Accepted(c) /\ schedules' = schedules)
       /\ (spots' # spots) => (schedules' = schedules)]_vars

\* C10: every schedule a creation request stores has status pending, whatever
\* the request body holds.
C10_CreatedPending ==
    [][\A c \in Clients :
        (Creates(c) /\ Accepted(c))
        => \A n \in schedules' \ schedules : n.status = "pending"]_vars


(***************************************************************************)
(* npm run cleanup (database-cleanup.js): the administrative purge         *)
(***************************************************************************)
\* DELETE FROM schedules; DELETE FROM users; DELETE FROM parking_lots (its spots
\* go with it, ON DELETE CASCADE); the sequences restart at 1
Cleanup ==
    /\ schedules' = {}
    /\ users' = {}
    /\ parking_lots' = {}
    /\ spots' = {sp \in spots : sp.parking_lot_id = Null}
    /\ schedules_id_seq' = 1
    /\ parking_lots_id_seq' = 1
    /\ issues' = {}
    /\ issues_id_seq' = 1
    /\ UNCHANGED <<today, req>>

NextPurge(Cs, Bs) ==
    \/ NextSchedules(Cs, Bs)
    \/ Cleanup

\* the schedule endpoints, with the purge script run at any time
SpecPurge == Init /\ [][NextPurge({1}, TimeBodies)]_vars

\* this step is the handler of client c's DELETE /api/schedules/:id answering
Cancels(c) == InFlight(c, "PgpDeleteSchedule") /\ req'[c].pc = "done"

\* this step is the purge
IsPurge ==
    /\ schedules' = {}
    /\ users' = {}
    /\ parking_lots' = {}
    /\ schedules_id_seq' = 1
    /\ req' = req

\* the status changes section 3 of the specification allows
StatusMoves ==
    { <<"pending", "active">>, <<"active", "completed">>,
      <<"pending", "cancelled">>, <<"active", "cancelled">> }

\* C11: cancelling a schedule whose id was ever handed out answers 200 and
\* leaves the row stored with status cancelled; on an already cancelled row
\* nothing changes; only an id that never existed is answered 404.
C11_CancelIdempotent ==
    [][\A c \in Clients :
        Cancels(c) =>
          IF req[c].id < schedules_id_seq
          THEN /\ req'[c].resp.code = 200
               /\ \E s \in schedules' : s.id = req[c].id /\ s.status = "cancelled"
               /\ (\E s \in schedules : s.id = req[c].id /\ s.status = "cancelled")
                    => schedules' = schedules
          ELSE /\ req'[c].resp.code = 404
               /\ schedules' = schedules]_vars

\* C12: in every step a stored schedule's status either stays or moves along
\* pending->active, active->completed, or pending/active->cancelled.
C12_StatusLifecycle ==
    [][\A a \in schedules, b \in schedules' :
        (a.id = b.id /\ a.status # b.status) => <<a.status, b.status>> \in StatusMoves]_vars

\* C14: a schedule row, once stored, is in every later state until the purge:
\* only the purge ends a step with a stored id gone.
C14_NeverPhysicallyDeleted ==
    [][(\E s \in schedules : \A n \in schedules' : n.id # s.id) => IsPurge]_vars


(***************************************************************************)
(* ReservationScheduler.advance(now) (specification section 4.3).  Neither *)
(* service has a sweep; the operation is the specification's.  now is the  *)
(* pair (today, hour).                                                     *)
(***************************************************************************)
ClockHours == {8, 9, 10}

\* now lies inside an occurrence of s
Occurs(s, d, h) == InEffect(s, d) /\ s.start_time <= h /\ h < s.end_time

\* the slip of reading the start of the booking for its end
Ended_ByStart(s, d, h) ==
    /\ ~ s.is_recurring
    /\ d > s.date \/ (d = s.date /\ h >= s.start_time)

\* the end of the one occurrence of a one-shot schedule has passed
Ended(s, d, h) ==
    /\ ~ s.is_recurring
    /\ d > s.date \/ (d = s.date /\ h >= s.end_time)

Advanced(s, d, h) ==
    IF s.status = "pending" /\ Occurs(s, d, h) THEN [s EXCEPT !.status = "active"]
    ELSE IF s.status = "active" /\ Ended(s, d, h) THEN [s EXCEPT !.status = "completed"]
    ELSE s

AdvanceAll(S, d, h) == {Advanced(s, d, h) : s \in S}

Advance(h) ==
    /\ schedules' = AdvanceAll(schedules, today, h)
    /\ UNCHANGED <<parking_lots, parking_lots_id_seq, spots, users, schedules_id_seq, issues, issues_id_seq, today, req>>

\* bookings of today and tomorrow, one-shot and recurring
AdvanceBodies ==
    {[BaseBody EXCEPT !.date = dt] : dt \in {0, 1}}
      \cup {[BaseBody EXCEPT !.date = 0, !.is_recurring = TRUE, !.recurring_days = {0, 1}],
            [BaseBody EXCEPT !.date = 0, !.status = "active"]}

NextAdvance(Cs, Bs) ==
    \/ \E c \in Cs, op \in PostOps, b \in Bs : SendPostSchedule(c, op, b)
    \/ \E c \in Cs : SrvPostSchedule(c)
    \/ \E c \in Cs : PgpPostSchedule(c)
    \/ Tick
    \/ \E h \in ClockHours : Advance(h)

\* schedules created through the services, swept at any hour
SpecAdvance == Init /\ [][NextAdvance({1}, AdvanceBodies)]_vars

\* C13: for every stored set of schedules and every now, advance applied twice
\* gives what it gives applied once; it changes nothing but status, makes a
\* pending schedule active exactly when now lies inside an occurrence of it,
\* completes an active one-shot schedule exactly when its end has passed, and
\* leaves completed and cancelled schedules alone.
C13_AdvanceIdempotent ==
    \A h \in ClockHours :
        LET once == AdvanceAll(schedules, today, h)
        IN /\ AdvanceAll(once, today, h) = once
           /\ \A s \in schedules :
                LET a == Advanced(s, today, h)
                IN /\ [a EXCEPT !.status = s.status] = s
                   /\ s.status = "pending" =>
                        /\ a.status \in {"pending", "active"}
                        /\ a.status = "active" <=> Occurs(s, today, h)
                   /\ (s.status = "active" /\ ~ s.is_recurring) =>
                        /\ a.status \in {"active", "completed"}
                        /\ a.status = "completed"
                             <=> (today > s.date \/ (today = s.date /\ h >= s.end_time))
                   /\ s.status \in {"completed", "cancelled"} => a = s

\* C13 witness: sweeps have made one schedule completed and another active, and
\* a pending schedule is stored that the sweep at some hour would activate.
C13_Witness ==
    /\ \E s \in schedules : s.status = "completed"
    /\ \E s \in schedules, h \in ClockHours : s.status = "pending" /\ Occurs(s, today, h)

(***************************************************************************)
(* OccupancyProjector.occupancyOf(lot, at), GET /lots/{id}/occupancy       *)
(* (specification sections 4.4, 6).  Neither service has the route; the    *)
(* projection is the specification's.  at is the pair (date, hour).        *)
(***************************************************************************)
\* the schedules of spot sp with status st that occur at (d, h)
SchedulesAt(sp, st, d, h) ==
    {s \in schedules : /\ s.parking_lot_id = sp.parking_lot_id
                       /\ s.spot_number = sp.spot_number
                       /\ s.status = st
                       /\ Occurs(s, d, h)}

\* the projection that lets a booking hide the manual override
SpotOccupancy_BookingFirst(sp, d, h) ==
    IF SchedulesAt(sp, "active", d, h) # {} THEN "occupied"
    ELSE IF SchedulesAt(sp, "pending", d, h) # {} THEN "reserved"
    ELSE IF sp.status = "disabled" THEN "disabled"
    ELSE "available"

SpotOccupancy(sp, d, h) ==
    IF sp.status = "disabled" THEN "disabled"
    ELSE IF SchedulesAt(sp, "active", d, h) # {} THEN "occupied"
    ELSE IF SchedulesAt(sp, "pending", d, h) # {} THEN "reserved"
    ELSE "available"

SpotsOf(lotId) == {sp \in spots : sp.parking_lot_id = lotId}

\* the mapping of spot label to status
OccupancyOf(lotId, d, h) ==
    [label \in {sp.spot_number : sp \in SpotsOf(lotId)} |->
        SpotOccupancy(CHOOSE sp \in SpotsOf(lotId) : sp.spot_number = label, d, h)]

SendGetOccupancy(c, lotId, d, h) ==
    /\ CanSend(c)
    /\ req' = [req EXCEPT ![c] = [pc |-> "sent", op |-> "GetOccupancy", id |-> lotId,
                                  body |-> [at_date |-> d, at_hour |-> h], resp |-> NoResp]]
    /\ UNCHANGED <<parking_lots, parking_lots_id_seq, spots, users, schedules, schedules_id_seq, issues, issues_id_seq, today>>

GetOccupancy(c) ==
    /\ InFlight(c, "GetOccupancy")
    /\ IF \E l \in parking_lots : l.id = req[c].id
       THEN Respond(c, [code |-> 200, error |-> "", details |-> FALSE,
                        data |-> OccupancyOf(req[c].id, req[c].body.at_date, req[c].body.at_hour)])
       ELSE Respond(c, [code |-> 404, error |-> "NotFound", details |-> FALSE, data |-> Null])
    /\ UNCHANGED <<parking_lots, parking_lots_id_seq, spots, users, schedules, schedules_id_seq, issues, issues_id_seq, today>>

\* bookings of A1 today in each status the projection tells apart, and one of A2
OccupancyBodies ==
    {[BaseBody EXCEPT !.date = 0, !.status = st] : st \in {"pending", "active", "cancelled"}}
      \cup {[BaseBody EXCEPT !.date = 0, !.status = "active", !.spot_number = "A2"],
            [BaseBody EXCEPT !.date = 0, !.status = "pending", !.start_time = 10, !.end_time = 11]}

NextOccupancy(Cs, Bs) ==
    \/ \E c \in Cs, b \in Bs : SendPostSchedule(c, "PgpPostSchedule", b)
    \/ \E c \in Cs : PgpPostSchedule(c)
    \/ \E st \in SpotStatuses : SetManualStatus(1, st)
    \/ \E c \in Cs, lotId \in {1, 9}, d \in 0..MaxDay, h \in ClockHours : SendGetOccupancy(c, lotId, d, h)
    \/ \E c \in Cs : GetOccupancy(c)

\* schedules stored in any status, the override of spot A1, and the projection
SpecOccupancy == Init /\ [][NextOccupancy({1}, OccupancyBodies)]_vars

\* this step answers client c's occupancy query
Projects(c) == InFlight(c, "GetOccupancy") /\ req'[c].pc = "done" /\ req'[c].resp.code = 200

\* C15: the answer to an occupancy query of an existing lot maps exactly the
\* labels of the lot's spots, each to: disabled if the spot is manually
\* disabled, whatever its schedules; otherwise occupied if a schedule of the
\* spot is active at the queried time; otherwise reserved if one is pending at
\* that time; otherwise available.  The query changes nothing stored.
C15_OccupancyPrecedence ==
    [][\A c \in Clients :
        Projects(c) =>
          LET d == req[c].body.at_date
              h == req[c].body.at_hour
              map == req'[c].resp.data
          IN /\ DOMAIN map = {sp.spot_number : sp \in SpotsOf(req[c].id)}
             /\ \A sp \in SpotsOf(req[c].id) :
                  LET active == \E s \in schedules :
                                    SameSpot(s, sp) /\ s.status = "active" /\ Occurs(s, d, h)
                      pending == \E s \in schedules :
                                    SameSpot(s, sp) /\ s.status = "pending" /\ Occurs(s, d, h)
                  IN /\ sp.status = "disabled" => map[sp.spot_number] = "disabled"
                     /\ (sp.status # "disabled" /\ active) => map[sp.spot_number] = "occupied"
                     /\ (sp.status # "disabled" /\ ~ active /\ pending)
                          => map[sp.spot_number] = "reserved"
                     /\ (sp.status # "disabled" /\ ~ active /\ ~ pending)
                          => map[sp.spot_number] = "available"
             /\ UNCHANGED <<parking_lots, spots, users, schedules>>]_vars

\* C15 witness: a query has been answered with A1 disabled while A1 is manually
\* disabled and holds a schedule active at the queried time, and with A2
\* occupied.
C15_Witness ==
    \E c \in Clients :
        /\ req[c].pc = "done" /\ req[c].op = "GetOccupancy" /\ req[c].resp.code = 200
        /\ req[c].resp.data["A1"] = "disabled"
        /\ req[c].resp.data["A2"] = "occupied"
        /\ \E sp \in spots : sp.id = 1 /\ sp.spot_number = "A1" /\ sp.status = "disabled"
        /\ \E s \in schedules :
              /\ s.parking_lot_id = 1 /\ s.spot_number = "A1" /\ s.status = "active"
              /\ Occurs(s, req[c].body.at_date, req[c].body.at_hour)

(***************************************************************************)
(* The parking_lots table and its routes                                   *)
(***************************************************************************)
\* parking_lots_id_seq never hands out an id above this
MaxLotId == 4

\* JavaScript's !v for the values a body field takes
Falsy(v) == v \in {0, Undef, Null}

FalsyS(v) == v \in {"", UndefS, NullS}

\* the row an INSERT or UPDATE of parking_lots writes (merged_aisles stands for
\* the aisle list under the key the service reads: mergedAisles in server.js,
\* merged_aisles in part_001)
LotRow(id, b) ==
    [id |-> id, name |-> b.name, rows |-> b.rows, cols |-> b.cols, merged_aisles |-> b.merged_aisles]

\* what PostgreSQL demands of a parking_lots row: the three NOT NULL columns
LotRowOk(row) == row.name # NullS /\ row.rows # Null /\ row.cols # Null

\* server.js: the destructured body as the parameter list of the statement
SrvLotParams(b) ==
    [b EXCEPT !.name = PgParamS(b.name), !.rows = PgParam(b.rows), !.cols = PgParam(b.cols)]

\* pg-promise refuses to format a query naming a property the object lacks
\* (spaces and merged_aisles are taken as present)
PgpLotFormats(b) == b.name # UndefS /\ b.rows # Undef /\ b.cols # Undef

SrvLotNotFound == [code |-> 404, error |-> "Parking lot not found", details |-> FALSE, data |-> Null]

\* a foreign key that would take the schedules of a deleted lot with it
SchedulesAfterLotDelete_Cascade(id) == {s \in schedules : s.parking_lot_id # id}

\* schedules.parking_lot_id REFERENCES parking_lots(id) ON DELETE SET NULL
SchedulesAfterLotDelete(id) ==
    {IF s.parking_lot_id = id THEN [s EXCEPT !.parking_lot_id = Null] ELSE s : s \in schedules}

\* spots.parking_lot_id REFERENCES parking_lots(id) ON DELETE CASCADE
SpotsAfterLotDelete(id) == {sp \in spots : sp.parking_lot_id # id}

(***************************************************************************)
(* POST /api/parking-lots                                                  *)
(***************************************************************************)
SrvPostLot(c) ==
    /\ InFlight(c, "SrvPostLot")
    /\ LET b == req[c].body
           row == LotRow(parking_lots_id_seq, SrvLotParams(b))
       IN IF FalsyS(b.name) \/ Falsy(b.rows) \/ Falsy(b.cols)
          THEN /\ Respond(c, [code |-> 400, error |-> "Name, rows, and cols are required",
                               details |-> FALSE, data |-> Null])
               /\ UNCHANGED <<parking_lots, parking_lots_id_seq>>
          ELSE IF LotRowOk(row)
          THEN /\ parking_lots' = parking_lots \cup {row}
               /\ parking_lots_id_seq' = parking_lots_id_seq + 1
               /\ Respond(c, [code |-> 201, error |-> "", details |-> FALSE, data |-> row.id])
          ELSE /\ Respond(c, [code |-> 500, error |-> "Failed to create parking lot",
                               details |-> TRUE, data |-> Null])
               /\ UNCHANGED <<parking_lots, parking_lots_id_seq>>
    /\ UNCHANGED <<spots, users, schedules, schedules_id_seq, issues, issues_id_seq, today>>

PgpPostLot(c) ==
    /\ InFlight(c, "PgpPostLot")
    /\ LET b == req[c].body
           row == LotRow(parking_lots_id_seq, b)
       IN IF PgpLotFormats(b) /\ LotRowOk(row)
          THEN /\ parking_lots' = parking_lots \cup {row}
               /\ parking_lots_id_seq' = parking_lots_id_seq + 1
               /\ Respond(c, [code |-> 201, error |-> "", details |-> FALSE, data |-> row.id])
          ELSE /\ HandleError(c)
               /\ UNCHANGED <<parking_lots, parking_lots_id_seq>>
    /\ UNCHANGED <<spots, users, schedules, schedules_id_seq, issues, issues_id_seq, today>>

(***************************************************************************)
(* PUT /api/parking-lots/:id                                               *)
(***************************************************************************)
SrvPutLot(c) ==
    /\ InFlight(c, "SrvPutLot")
    /\ LET old == {l \in parking_lots : l.id = req[c].id}
           new == {LotRow(l.id, SrvLotParams(req[c].body)) : l \in old}
       IN IF old = {}
          THEN Respond(c, SrvLotNotFound) /\ UNCHANGED parking_lots
          ELSE IF \A r \in new : LotRowOk(r)
          THEN /\ parking_lots' = (parking_lots \ old) \cup new
               /\ Respond(c, [code |-> 200, error |-> "", details |-> FALSE, data |-> req[c].id])
          ELSE /\ Respond(c, [code |-> 500, error |-> "Failed to update parking lot",
                               details |-> TRUE, data |-> Null])
               /\ UNCHANGED parking_lots
    /\ UNCHANGED <<parking_lots_id_seq, spots, users, schedules, schedules_id_seq, issues, issues_id_seq, today>>

PgpPutLot(c) ==
    /\ InFlight(c, "PgpPutLot")
    /\ LET b == req[c].body
           old == {l \in parking_lots : l.id = req[c].id}
           new == {LotRow(l.id, b) : l \in old}
       IN IF ~ PgpLotFormats(b)
          THEN HandleError(c) /\ UNCHANGED parking_lots
          ELSE IF old = {}
          THEN Respond(c, PgpNotFound) /\ UNCHANGED parking_lots
          ELSE IF \A r \in new : LotRowOk(r)
          THEN /\ parking_lots' = (parking_lots \ old) \cup new
               /\ Respond(c, [code |-> 200, error |-> "", details |-> FALSE, data |-> req[c].id])
          ELSE HandleError(c) /\ UNCHANGED parking_lots
    /\ UNCHANGED <<parking_lots_id_seq, spots, users, schedules, schedules_id_seq, issues, issues_id_seq, today>>

(***************************************************************************)
(* DELETE /api/parking-lots/:id                                            *)
(***************************************************************************)
\* DELETE FROM parking_lots WHERE id = ..., with the foreign keys' actions
DeleteLotRow(c, notFound) ==
    IF \E l \in parking_lots : l.id = req[c].id
    THEN /\ parking_lots' = {l \in parking_lots : l.id # req[c].id}
         /\ spots' = SpotsAfterLotDelete(req[c].id)
         /\ schedules' = SchedulesAfterLotDelete(req[c].id)
         /\ Respond(c, [code |-> 200, error |-> "", details |-> FALSE, data |-> req[c].id])
    ELSE /\ Respond(c, notFound)
         /\ UNCHANGED <<parking_lots, spots, schedules>>

SrvDeleteLot(c) ==
    /\ InFlight(c, "SrvDeleteLot")
    /\ DeleteLotRow(c, SrvLotNotFound)
    /\ UNCHANGED <<parking_lots_id_seq, users, schedules_id_seq, issues, issues_id_seq, today>>

PgpDeleteLot(c) ==
    /\ InFlight(c, "PgpDeleteLot")
    /\ DeleteLotRow(c, PgpNotFound)
    /\ UNCHANGED <<parking_lots_id_seq, users, schedules_id_seq, issues, issues_id_seq, today>>

(***************************************************************************)
(* Lot requests arriving                                                   *)
(***************************************************************************)
LotPostOps == {"SrvPostLot", "PgpPostLot"}

LotPutOps == {"SrvPutLot", "PgpPutLot"}

LotDeleteOps == {"SrvDeleteLot", "PgpDeleteLot"}

\* the North Lot, the first lot a client creates, and an id never handed out
LotIds == {1, MaxLotId, MaxLotId + 5}

LotIdsLeft ==
    parking_lots_id_seq
      + Cardinality({c \in DOMAIN req : req[c].pc = "sent" /\ req[c].op \in LotPostOps})
      <= MaxLotId

SendPostLot(c, op, b) ==
    /\ CanSend(c)
    /\ LotIdsLeft
    /\ req' = [req EXCEPT ![c] = [pc |-> "sent", op |-> op, id |-> Null, body |-> b, resp |-> NoResp]]
    /\ UNCHANGED <<parking_lots, parking_lots_id_seq, spots, users, schedules, schedules_id_seq, issues, issues_id_seq, today>>

SendPutLot(c, op, id, b) ==
    /\ CanSend(c)
    /\ req' = [req EXCEPT ![c] = [pc |-> "sent", op |-> op, id |-> id, body |-> b, resp |-> NoResp]]
    /\ UNCHANGED <<parking_lots, parking_lots_id_seq, spots, users, schedules, schedules_id_seq, issues, issues_id_seq, today>>

SendDeleteLot(c, op, id) ==
    /\ CanSend(c)
    /\ req' = [req EXCEPT ![c] = [pc |-> "sent", op |-> op, id |-> id, body |-> NoBody, resp |-> NoResp]]
    /\ UNCHANGED <<parking_lots, parking_lots_id_seq, spots, users, schedules, schedules_id_seq, issues, issues_id_seq, today>>

\* a 2 x 3 lot without aisles
BaseLot == [name |-> "West Lot", rows |-> 2, cols |-> 3, merged_aisles |-> <<>>]

\* row counts above, at and below zero; an aisle inside, outside and listed twice;
\* a missing name and a missing column count
GeometryBodies ==
    {[BaseLot EXCEPT !.rows = r] : r \in {2, 0, 0 - 3}}
      \cup {[BaseLot EXCEPT !.merged_aisles = a]
               : a \in {<< <<0, 0>> >>, << <<5, 0>> >>, << <<0, 0>>, <<0, 0>> >>}}
      \cup {[BaseLot EXCEPT !.name = UndefS], [BaseLot EXCEPT !.cols = Undef]}

\* the lot routes of both services, with schedules created beside them
NextLots(Cs, Ls, Bs) ==
    \/ \E c \in Cs, op \in LotPostOps, b \in Ls : SendPostLot(c, op, b)
    \/ \E c \in Cs, op \in LotPutOps, id \in LotIds, b \in Ls : SendPutLot(c, op, id, b)
    \/ \E c \in Cs, op \in LotDeleteOps, id \in LotIds : SendDeleteLot(c, op, id)
    \/ \E c \in Cs : SrvPostLot(c)
    \/ \E c \in Cs : PgpPostLot(c)
    \/ \E c \in Cs : SrvPutLot(c)
    \/ \E c \in Cs : PgpPutLot(c)
    \/ \E c \in Cs : SrvDeleteLot(c)
    \/ \E c \in Cs : PgpDeleteLot(c)
    \/ \E c \in Cs, b \in Bs : SendPostSchedule(c, "PgpPostSchedule", b)
    \/ \E c \in Cs : PgpPostSchedule(c)

\* lots created and edited with every geometry
SpecGeometry == Init /\ [][NextLots({1}, GeometryBodies, {BaseBody})]_vars

(***************************************************************************)
(* LayoutModel.defineLot (specification section 4.1)                       *)
(***************************************************************************)
InBounds(a, rows, cols) == 0 <= a[1] /\ a[1] < rows /\ 0 <= a[2] /\ a[2] < cols

\* the request gives a name and integer row and column counts
LotBodyGiven(b) == ~ FalsyS(b.name) /\ b.rows \notin {Undef, Null} /\ b.cols \notin {Undef, Null}

InvalidGeometry(b) ==
    \/ b.rows <= 0
    \/ b.cols <= 0
    \/ \E i \in DOMAIN b.merged_aisles : ~ InBounds(b.merged_aisles[i], b.rows, b.cols)
    \/ \E i, j \in DOMAIN b.merged_aisles : i # j /\ b.merged_aisles[i] = b.merged_aisles[j]

\* this step is the handler of client c's lot creation answering
CreatesLot(c) == req[c].pc = "sent" /\ req[c].op \in LotPostOps /\ req'[c].pc = "done"

\* C16: a lot creation request naming the lot and giving row and column counts
\* is answered 400 and stores nothing when rows <= 0, cols <= 0, or an aisle
\* coordinate is out of bounds or listed twice; otherwise it is answered 201
\* and the lot is stored.
C16_InvalidGeometryRejected ==
    [][\A c \in Clients :
        (CreatesLot(c) /\ LotBodyGiven(req[c].body)) =>
            IF InvalidGeometry(req[c].body)
            THEN req'[c].resp.code = 400 /\ parking_lots' = parking_lots
            ELSE /\ req'[c].resp.code = 201
                 /\ \E l \in parking_lots' \ parking_lots :
                       /\ l.id = req'[c].resp.data
                       /\ l.rows = req[c].body.rows
                       /\ l.cols = req[c].body.cols]_vars

\* C17: in every reachable state every stored lot has rows >= 1, cols >= 1 and
\* all its aisle coordinates within [0, rows) x [0, cols).
C17_StoredGeometryValid ==
    \A l \in parking_lots :
        /\ l.rows >= 1
        /\ l.cols >= 1
        /\ \A i \in DOMAIN l.merged_aisles : InBounds(l.merged_aisles[i], l.rows, l.cols)

(***************************************************************************)
(* LayoutModel.resize (specification section 4.1)                          *)
(***************************************************************************)
\* the North Lot kept at 4 x 10 or cut to 3 x 10, with or without an aisle at (3, 9)
ResizeBodies ==
    {[name |-> "North Lot", rows |-> r, cols |-> NorthCols, merged_aisles |-> a]
        : r \in {NorthRows, NorthRows - 1}, a \in {<<>>, << <<3, 9>> >>}}

\* bookings of A40, the spot at (3, 9), and of A1
ResizeSchedules ==
    {[BaseBody EXCEPT !.spot_number = "A40", !.status = st] : st \in {"pending", "active", "cancelled"}}
      \cup {BaseBody}

\* resizing the North Lot while its spots are booked
SpecResize == Init /\ [][NextLots({1}, ResizeBodies, ResizeSchedules)]_vars

\* the spots of lot l referenced by a non-cancelled schedule whose coordinate
\* is parkable in l and would not be in the layout b
BookedSpotsRemoved(l, b) ==
    {sp \in spots :
        /\ sp.parking_lot_id = l.id
        /\ \E s \in schedules : NonCancelled(s) /\ SameSpot(s, sp)
        /\ IsParkable(l, sp.row_number, sp.col_number)
        /\ ~ IsParkable(LotRow(l.id, b), sp.row_number, sp.col_number)}

\* this step is the handler of client c's lot update answering
UpdatesLot(c) == req[c].pc = "sent" /\ req[c].op \in LotPutOps /\ req'[c].pc = "done"

\* C18: an update of an existing lot whose new bounds or aisles make
\* unparkable the coordinate of a spot referenced by a non-cancelled schedule
\* is answered 409 and leaves the stored lots as they were.
C18_ConflictingResizeRejected ==
    [][\A c \in Clients :
        (/\ UpdatesLot(c)
         /\ LotBodyGiven(req[c].body)
         /\ \E l \in parking_lots : l.id = req[c].id /\ BookedSpotsRemoved(l, req[c].body) # {})
        => (req'[c].resp.code = 409 /\ parking_lots' = parking_lots)]_vars

(***************************************************************************)
(* Deleting a lot                                                          *)
(***************************************************************************)
\* bookings of A1 of the North Lot and of a spot of the South Lot
LotSchedules == {BaseBody, [BaseBody EXCEPT !.parking_lot_id = 2, !.spot_number = "B1"]}

\* lots created and deleted while schedules refer to them
SpecLotDelete == Init /\ [][NextLots({1}, {BaseLot}, LotSchedules)]_vars

\* this step deletes the lot client c names
DeletesLot(c) ==
    /\ req[c].pc = "sent" /\ req[c].op \in LotDeleteOps
    /\ req'[c].pc = "done" /\ req'[c].resp.code = 200

ManualStatusAllowed_AnyStatus(st) == st \in SpotStatuses

\* the statuses an operator may set; reserved and occupied are the scheduler's
ManualStatusAllowed(st) == st \in {"available", "disabled"}

\* the spots the request names
SpotsNamed(lotId, label) == {sp \in spots : sp.parking_lot_id = lotId /\ sp.spot_number = label}

SendSpotStatus(c, lotId, label, st) ==
    /\ CanSend(c)
    /\ req' = [req EXCEPT ![c] = [pc |-> "sent", op |-> "PostSpotStatus", id |-> lotId,
                                  body |-> [spot_number |-> label, status |-> st], resp |-> NoResp]]
    /\ UNCHANGED <<parking_lots, parking_lots_id_seq, spots, users, schedules, schedules_id_seq, issues, issues_id_seq, today>>

PostSpotStatus(c) ==
    /\ InFlight(c, "PostSpotStatus")
    /\ LET named == SpotsNamed(req[c].id, req[c].body.spot_number)
       IN IF named = {}
          THEN /\ Respond(c, [code |-> 404, error |-> "NotFound", details |-> FALSE, data |-> Null])
               /\ UNCHANGED spots
          ELSE IF ~ ManualStatusAllowed(req[c].body.status)
          THEN /\ Respond(c, [code |-> 400, error |-> "BadRequest", details |-> FALSE, data |-> Null])
               /\ UNCHANGED spots
          ELSE /\ spots' = {IF sp \in named THEN [sp EXCEPT !.status = req[c].body.status] ELSE sp
                               : sp \in spots}
               /\ Respond(c, [code |-> 200, error |-> "", details |-> FALSE, data |-> Null])
    /\ UNCHANGED <<parking_lots, parking_lots_id_seq, users, schedules, schedules_id_seq, issues, issues_id_seq, today>>

NextSpotStatus(Cs) ==
    \/ \E c \in Cs, lotId \in {1, 2}, label \in {"A1", "A2", "A41"}, st \in SpotStatuses :
          SendSpotStatus(c, lotId, label, st)
    \/ \E c \in Cs : PostSpotStatus(c)

\* operators setting the status of spots that exist and of spots that do not
SpecSpotStatus == Init /\ [][NextSpotStatus({1})]_vars

\* this step answers client c's status change
SetsStatus(c) == InFlight(c, "PostSpotStatus") /\ req'[c].pc = "done"

\* C20: a status change naming an existing spot is answered 400 and changes no
\* spot when the status asked for is reserved or occupied, and is answered 200
\* and gives that spot (and no other) the status when it is disabled or
\* available, whatever the spot's status was; a status change naming a spot
\* that does not exist is never accepted, changes nothing, and is answered 404
\* when the status asked for is one an operator may set.
C20_ManualStatusGuarded ==
    [][\A c \in Clients :
        SetsStatus(c) =>
          LET st == req[c].body.status
              exists == \E sp \in spots :
                           sp.parking_lot_id = req[c].id /\ sp.spot_number = req[c].body.spot_number
          IN /\ (exists /\ st \in {"reserved", "occupied"})
                  => (req'[c].resp.code = 400 /\ spots' = spots)
             /\ (exists /\ st \in {"disabled", "available"})
                  => /\ req'[c].resp.code = 200
                     /\ \A sp \in spots :
                          IF sp.parking_lot_id = req[c].id /\ sp.spot_number = req[c].body.spot_number
                          THEN [sp EXCEPT !.status = st] \in spots'
                          ELSE sp \in spots'
                     /\ Cardinality(spots') = Cardinality(spots)
             /\ ~ exists
                  => /\ req'[c].resp.code \in {400, 404}
                     /\ st \in {"disabled", "available"} => req'[c].resp.code = 404
                     /\ spots' = spots]_vars

\* C20 witness: spot A1 stands disabled by an earlier accepted change, and a
\* request to mark it occupied has just been answered 400.
C20_Witness ==
    \E c \in Clients :
        /\ req[c].pc = "done" /\ req[c].op = "PostSpotStatus"
        /\ req[c].id = 1 /\ req[c].body.spot_number = "A1"
        /\ req[c].body.status = "occupied" /\ req[c].resp.code = 400
        /\ \E sp \in spots : sp.id = 1 /\ sp.status = "disabled"

(***************************************************************************)
(* SpotRegistry.ensureSpots(lot) (specification section 4.2).  No handler  *)
(* of the services writes the spots table; the operation is the            *)
(* specification's, over the spots table of the schema.                    *)
(***************************************************************************)
\* the spots table never holds more rows than this
MaxSpots == 48

\* a spot still attached to a coordinate
Live(sp) == sp.row_number # Null

Coordinates(l) == {<<r, k>> : r \in 0..(l.rows - 1), k \in 0..(l.cols - 1)}

Parkable(l) == {x \in Coordinates(l) : IsParkable(l, x[1], x[2])}

LiveAt(S, lotId, x) ==
    {sp \in S : sp.parking_lot_id = lotId /\ Live(sp) /\ sp.row_number = x[1] /\ sp.col_number = x[2]}

\* a retirement that only disables the spot
Retire_KeepCoordinate(sp) == [sp EXCEPT !.status = "disabled"]

\* soft delete: status disabled, detached from the coordinate
Retire(sp) == [sp EXCEPT !.status = "disabled", !.row_number = Null, !.col_number = Null]

\* position of coordinate x among the coordinates M, row by row
Rank(M, x) ==
    Cardinality({y \in M : y[1] < x[1] \/ (y[1] = x[1] /\ y[2] <= x[2])})

MaxSpotId == IF spots = {} THEN 0
             ELSE CHOOSE n \in {sp.id : sp \in spots} : \A sp \in spots : sp.id <= n

\* the spots ensureSpots creates for lot l: ids from the sequence, labels
\* continuing the lot's own numbering A1, A2, ...
NewSpots(l) ==
    LET missing == {x \in Parkable(l) : LiveAt(spots, l.id, x) = {}}
        had == Cardinality(SpotsOf(l.id))
    IN {[id |-> MaxSpotId + Rank(missing, x), parking_lot_id |-> l.id,
         spot_number |-> "A" \o ToString(had + Rank(missing, x)),
         row_number |-> x[1], col_number |-> x[2], status |-> "available"] : x \in missing}

EnsureSpots(lotId) ==
    /\ \E l \in parking_lots :
          /\ l.id = lotId
          /\ spots' = {IF sp.parking_lot_id = lotId /\ Live(sp)
                          /\ ~ IsParkable(l, sp.row_number, sp.col_number)
                       THEN Retire(sp) ELSE sp : sp \in spots} \cup NewSpots(l)
    /\ Cardinality(spots') <= MaxSpots
    /\ UNCHANGED <<parking_lots, parking_lots_id_seq, users, schedules, schedules_id_seq, issues, issues_id_seq, today, req>>

\* layouts the West Lot is given: 2 x 3, with an aisle, one row only, and a
\* negative row count
EnsureBodies ==
    {BaseLot, [BaseLot EXCEPT !.merged_aisles = << <<0, 0>> >>],
     [BaseLot EXCEPT !.rows = 1], [BaseLot EXCEPT !.rows = 0 - 3]}

NextEnsure(Cs, Ls) ==
    \/ \E c \in Cs, b \in Ls : SendPostLot(c, "PgpPostLot", b)
    \/ \E c \in Cs, b \in Ls : SendPutLot(c, "PgpPutLot", MaxLotId, b)
    \/ \E c \in Cs : PgpPostLot(c)
    \/ \E c \in Cs : PgpPutLot(c)
    \/ EnsureSpots(MaxLotId)

\* a lot created and re-laid-out, the registry synchronised in between
SpecEnsure == Init /\ [][NextEnsure({1}, EnsureBodies)]_vars

\* this step is ensureSpots of lot lotId, and it had something to do
Ensures(lotId) ==
    /\ req' = req /\ parking_lots' = parking_lots
    /\ {sp \in spots' : sp.parking_lot_id = lotId} # {sp \in spots : sp.parking_lot_id = lotId}

\* C21: after ensureSpots of a lot, every parkable coordinate of the lot holds
\* exactly one live spot, no two spots of the lot share a label, and every
\* spot of the lot is either live on a parkable coordinate or retired
\* (disabled and detached from its coordinate).
C21_EnsureSpotsSynchronises ==
    [][\A l \in parking_lots :
        Ensures(l.id) =>
          LET mine == {sp \in spots' : sp.parking_lot_id = l.id}
          IN /\ \A r \in 0..(l.rows - 1), k \in 0..(l.cols - 1) :
                  (\A i \in DOMAIN l.merged_aisles : l.merged_aisles[i] # <<r, k>>)
                    => Cardinality({sp \in mine : sp.row_number = r /\ sp.col_number = k}) = 1
             /\ \A a \in mine, b \in mine : a.spot_number = b.spot_number => a = b
             /\ \A sp \in mine :
                  \/ /\ 0 <= sp.row_number /\ sp.row_number < l.rows
                     /\ 0 <= sp.col_number /\ sp.col_number < l.cols
                     /\ \A i \in DOMAIN l.merged_aisles :
                           l.merged_aisles[i] # <<sp.row_number, sp.col_number>>
                  \/ /\ sp.status = "disabled"
                     /\ sp.row_number = Null /\ sp.col_number = Null]_vars

\* C21 witness: the West Lot, synchronised as 2 x 3 with an aisle at (0, 0)
\* and later widened again, holds a retired spot (once at (0, 0)), a newer live
\* spot at (0, 0), and a live spot in its second row.
C21_Witness ==
    /\ \E l \in parking_lots : l.id = MaxLotId /\ l.rows = 2 /\ l.merged_aisles = <<>>
    /\ \E old \in spots, new \in spots :
          /\ old.parking_lot_id = MaxLotId /\ old.status = "disabled" /\ ~ Live(old)
          /\ new.parking_lot_id = MaxLotId /\ new.id > old.id
          /\ new.row_number = 0 /\ new.col_number = 0
    /\ \E sp \in spots : sp.parking_lot_id = MaxLotId /\ sp.row_number = 1

(***************************************************************************)
(* The decision of a creation request                                      *)
(***************************************************************************)
\* bookings dated today and tomorrow, and requests the tables refuse
DecideBodies ==
    {[BaseBody EXCEPT !.date = dt] : dt \in {0, 1}}
      \cup {[BaseBody EXCEPT !.user_id = 9], [BaseBody EXCEPT !.date = Undef],
            [BaseBody EXCEPT !.status = "bogus"]}

NextDecide(Cs, Bs) ==
    \/ \E c \in Cs, op \in PostOps, b \in Bs : SendPostSchedule(c, op, b)
    \/ \E c \in Cs : SrvPostSchedule(c)
    \/ \E c \in Cs : PgpPostSchedule(c)
    \/ Tick

\* the same requests decided on different days and at different sequence values
SpecDecide == Init /\ [][NextDecide({1}, DecideBodies)]_vars

\* whether the tables U (users) and L (parking lots) take the booking b asks
\* for, as a function of the request and the tables alone
Takes(op, b, U, L) ==
    /\ op = "PgpPostSchedule" =>
          /\ \A v \in {b.user_id, b.parking_lot_id, b.start_time, b.end_time, b.date} : v # Undef
          /\ b.spot_number # UndefS
          /\ b.status \in ScheduleStatuses \cup {NullS}
    /\ \A v \in {b.start_time, b.end_time, b.date} : v \notin {Undef, Null}
    /\ b.user_id \in {Undef, Null} \cup {u.id : u \in U}
    /\ b.parking_lot_id \in {Undef, Null} \cup {l.id : l \in L}

\* code and error text of the answer
Decision(op, b, U, L) ==
    IF Takes(op, b, U, L) THEN <<201, "">>
    ELSE IF op = "SrvPostSchedule" THEN <<500, "Failed to create schedule">>
    ELSE <<500, "Internal server error">>

\* C22: the answer to a schedule-creation request (accepted or rejected, and
\* the error it names) is the value of one function of the request and the
\* stored users and parking lots; it does not vary with the clock, the id
\* sequence or anything else, so two runs from the same committed state with
\* the same request decide alike.
C22_DecisionDeterministic ==
    [][\A c \in Clients :
        Creates(c) =>
          /\ <<req'[c].resp.code, req'[c].resp.error>>
                = Decision(req[c].op, req[c].body, users, parking_lots)
          /\ req'[c].resp.code = 201 <=> schedules' # schedules]_vars

\* C22 witness: the same request has been accepted twice, on different days
\* and with different ids, the users and lots being what they were.
C22_Witness ==
    /\ users = SampleUsers /\ parking_lots = SampleLots
    /\ \E a \in schedules, b \in schedules :
          /\ a.id # b.id /\ a.created_at # b.created_at
          /\ [a EXCEPT !.id = 0, !.created_at = 0] = [b EXCEPT !.id = 0, !.created_at = 0]
          /\ a.date < b.created_at

\* C23: no answer a client has received carries the text of a database error
\* (details is the response field server.js fills with error.message).
C23_NoStorageDetail ==
    \A c \in Clients : req[c].pc = "done" => ~ req[c].resp.details

(***************************************************************************)
(* The users table and POST /api/users, part_001                           *)
(***************************************************************************)
\* no user id above this is handed out
MaxUserId == 6

\* String.prototype.toLowerCase on the addresses the clients use
ToLowerCase(e) ==
    CASE e = "New@Calvin.edu" -> "new@calvin.edu"
      [] e = "Max.Wu@calvin.edu" -> "max.wu@calvin.edu"
      [] OTHER -> e

\* bcrypt.hash and bcrypt.compare: compare accepts exactly the password the
\* hash was made from (the salt is left out)
BcryptHash(pw) == "bcrypt(" \o pw \o ")"

\* a comparison that lets every password through
BcryptCompare_AnyPassword(pw, hash) == TRUE

BcryptCompare(pw, hash) == hash = BcryptHash(pw)

\* users_id_seq: rows leave the table only by the purge, which restarts it
UsersNextId ==
    IF users = {} THEN 1
    ELSE 1 + CHOOSE n \in {u.id : u \in users} : \A u \in users : u.id <= n

\* what PostgreSQL demands of a users row: NOT NULL, CHECK, and email UNIQUE
UserRowOk(row) ==
    /\ row.name # NullS /\ row.email # NullS /\ row.password_hash # NullS
    /\ row.role \in {"admin", "user"}
    /\ row.status \in {"active", "inactive", NullS}
    /\ ~ \E u \in users : u.id # row.id /\ u.email = row.email

UserIdsLeft ==
    UsersNextId - 1
      + Cardinality({c \in DOMAIN req : req[c].pc \in {"sent", "checked"} /\ req[c].op = "PgpPostUser"})
      < MaxUserId

SendPostUser(c, b) ==
    /\ CanSend(c)
    /\ UserIdsLeft
    /\ req' = [req EXCEPT ![c] = [pc |-> "sent", op |-> "PgpPostUser", id |-> Null, body |-> b, resp |-> NoResp]]
    /\ UNCHANGED <<parking_lots, parking_lots_id_seq, spots, users, schedules, schedules_id_seq, issues, issues_id_seq, today>>

\* the required-field test and SELECT id FROM users WHERE email = $1, with the
\* address as the client wrote it
PgpPostUserSelect(c) ==
    /\ InFlight(c, "PgpPostUser")
    /\ LET b == req[c].body
       IN IF FalsyS(b.name) \/ FalsyS(b.email) \/ FalsyS(b.role) \/ FalsyS(b.password)
          THEN Respond(c, [code |-> 400, error |-> "Missing required fields", details |-> FALSE, data |-> Null])
          ELSE IF \E u \in users : u.email = b.email
          THEN Respond(c, [code |-> 409, error |-> "A user with this email already exists",
                           details |-> FALSE, data |-> Null])
          ELSE req' = [req EXCEPT ![c] = [@ EXCEPT !.pc = "checked"]]
    /\ UNCHANGED <<parking_lots, parking_lots_id_seq, spots, users, schedules, schedules_id_seq, issues, issues_id_seq, today>>

\* bcrypt.hash and the INSERT, with the address lower-cased
PgpPostUserInsert(c) ==
    /\ req[c].pc = "checked" /\ req[c].op = "PgpPostUser"
    /\ LET b == req[c].body
           row == [id |-> UsersNextId, name |-> b.name, email |-> ToLowerCase(b.email),
                   password_hash |-> BcryptHash(b.password), role |-> b.role,
                   status |-> IF FalsyS(b.status) THEN "active" ELSE b.status]
       IN IF UserRowOk(row)
          THEN /\ users' = users \cup {row}
               /\ Respond(c, [code |-> 201, error |-> "", details |-> FALSE, data |-> row.id])
          ELSE HandleError(c) /\ UNCHANGED users
    /\ UNCHANGED <<parking_lots, parking_lots_id_seq, spots, schedules, schedules_id_seq, issues, issues_id_seq, today>>

BaseUser ==
    [name |-> "New User", email |-> "new@calvin.edu", password |-> "pw1", role |-> "user", status |-> UndefS]

\* a new address and a taken one, each also in mixed case; a role the table
\* refuses; a body without password
UserBodies ==
    {[BaseUser EXCEPT !.email = e]
        : e \in {"new@calvin.edu", "New@Calvin.edu", "max.wu@calvin.edu", "Max.Wu@calvin.edu"}}
      \cup {[BaseUser EXCEPT !.role = "client"], [BaseUser EXCEPT !.password = UndefS]}

NextUserRace(Cs, Bs) ==
    \/ \E c \in Cs, b \in Bs : SendPostUser(c, b)
    \/ \E c \in Cs : PgpPostUserSelect(c)
    \/ \E c \in Cs : PgpPostUserInsert(c)

InitTwo == InitDb /\ req = [c \in {1, 2} |-> IdleReq]

\* two clients creating users, their statements interleaved
SpecUserRace == InitTwo /\ [][NextUserRace({1, 2}, UserBodies)]_vars

\* this step is the handler of client c's user creation answering
CreatesUser(c) ==
    /\ req[c].op = "PgpPostUser" /\ req[c].pc \in {"sent", "checked"} /\ req'[c].pc = "done"

\* C24: a user creation request giving all required fields whose address,
\* lower-cased, is that of a stored user is answered 409 and stores nothing,
\* however the statements of concurrent requests interleave; and no two
\* stored users share an address.
C24_DuplicateEmailConflict ==
    [][/\ \A c \in Clients :
            (/\ CreatesUser(c)
             /\ ~ FalsyS(req[c].body.password)
             /\ \E u \in users : u.email = ToLowerCase(req[c].body.email))
            => (req'[c].resp.code = 409 /\ users' = users)
       /\ \A a \in users', b \in users' : a.email = b.email => a.id = b.id]_vars

(***************************************************************************)
(* DELETE /api/users/:id and POST /api/login, part_001                     *)
(***************************************************************************)
UserIds == {2, MaxUserId - 1, MaxUserId + 5}

SendDeleteUser(c, id) ==
    /\ CanSend(c)
    /\ req' = [req EXCEPT ![c] = [pc |-> "sent", op |-> "PgpDeleteUser", id |-> id, body |-> NoBody, resp |-> NoResp]]
    /\ UNCHANGED <<parking_lots, parking_lots_id_seq, spots, users, schedules, schedules_id_seq, issues, issues_id_seq, today>>

\* 'UPDATE users SET status=${"inactive"} WHERE id=${id} RETURNING id' is a
\* single-quoted string: pg-promise replaces ${id}, finds no property named by
\* ${"inactive"} to replace (a quoted word is not a variable name), and
\* PostgreSQL refuses the statement; the error goes to handleError
PgpDeleteUser(c) ==
    /\ InFlight(c, "PgpDeleteUser")
    /\ HandleError(c)
    /\ UNCHANGED <<parking_lots, parking_lots_id_seq, spots, users, schedules, schedules_id_seq, issues, issues_id_seq, today>>

SendLogin(c, email, password) ==
    /\ CanSend(c)
    /\ req' = [req EXCEPT ![c] = [pc |-> "sent", op |-> "PgpLogin", id |-> Null,
                                  body |-> [email |-> email, password |-> password], resp |-> NoResp]]
    /\ UNCHANGED <<parking_lots, parking_lots_id_seq, spots, users, schedules, schedules_id_seq, issues, issues_id_seq, today>>

LoginFailed == [code |-> 401, error |-> "Invalid email or password", details |-> FALSE, data |-> Null]

\* email.toLowerCase() throws on a missing email, bcrypt.compare rejects a
\* missing password: both end in the global error handler
PgpLogin(c) ==
    /\ InFlight(c, "PgpLogin")
    /\ LET b == req[c].body
           found == {u \in users : u.email = ToLowerCase(b.email)}
       IN IF b.email \in {UndefS, NullS}
          THEN Respond(c, PgpError)
          ELSE IF found = {}
          THEN Respond(c, LoginFailed)
          ELSE IF b.password \in {UndefS, NullS}
          THEN HandleError(c)
          ELSE \E u \in found :
                  IF BcryptCompare(b.password, u.password_hash)
                  THEN Respond(c, [code |-> 200, error |-> "", details |-> FALSE,
                                   data |-> [id |-> u.id, email |-> u.email, role |-> u.role]])
                  ELSE Respond(c, LoginFailed)
    /\ UNCHANGED <<parking_lots, parking_lots_id_seq, spots, users, schedules, schedules_id_seq, issues, issues_id_seq, today>>

LoginEmails == {"new@calvin.edu", "New@Calvin.edu", "max.wu@calvin.edu", "nobody@calvin.edu", UndefS}

LoginPasswords == {"pw1", "pw2", UndefS}

\* the new address in lower and in mixed case with different passwords, and
\* an administrator
AccountBodies ==
    {BaseUser, [BaseUser EXCEPT !.email = "New@Calvin.edu", !.password = "pw2"],
     [BaseUser EXCEPT !.email = "ada@calvin.edu", !.role = "admin", !.status = "inactive"]}

NextAccounts(Cs, Bs) ==
    \/ \E c \in Cs, b \in Bs : SendPostUser(c, b)
    \/ \E c \in Cs : PgpPostUserSelect(c)
    \/ \E c \in Cs : PgpPostUserInsert(c)
    \/ \E c \in Cs, id \in UserIds : SendDeleteUser(c, id)
    \/ \E c \in Cs : PgpDeleteUser(c)
    \/ \E c \in Cs, e \in LoginEmails, pw \in LoginPasswords : SendLogin(c, e, pw)
    \/ \E c \in Cs : PgpLogin(c)

\* accounts created, deleted and logged into
SpecAccounts == Init /\ [][NextAccounts({1}, AccountBodies)]_vars

\* this step is the handler of client c's user deletion answering
DeletesUser(c) == InFlight(c, "PgpDeleteUser") /\ req'[c].pc = "done"

\* C25: deleting an existing user is answered 200 and sets that user's status
\* to inactive, changing no other field, no other user and no other table
\* (so repeating it changes nothing); deleting an unknown id is answered 404
\* and changes nothing.
C25_SoftDelete ==
    [][\A c \in Clients :
        DeletesUser(c) =>
          /\ IF \E u \in users : u.id = req[c].id
             THEN /\ req'[c].resp.code = 200
                  /\ users' = {IF u.id = req[c].id THEN [u EXCEPT !.status = "inactive"] ELSE u
                                 : u \in users}
             ELSE req'[c].resp.code = 404 /\ users' = users
          /\ UNCHANGED <<parking_lots, spots, schedules>>]_vars

\* this step is the handler of client c's login answering
LogsIn(c) == InFlight(c, "PgpLogin") /\ req'[c].pc = "done"

IssueStatuses == {"open", "in_progress", "resolved", "closed"}

MaxIssueId == 2

\* issues the sequence may still number
IssueIdsLeft ==
    issues_id_seq
      + Cardinality({c \in DOMAIN req : req[c].pc = "sent" /\ req[c].op = "SrvPostIssue"})
      <= MaxIssueId

\* what a BOOLEAN parameter may be bound to (is_read travels as written in the
\* JSON body: true, false or null)
BoolParamOk(v) == v \in {"true", "false", NullS}

\* the issues table takes the row: user_name and message NOT NULL, the CHECK on
\* status (which passes on NULL)
IssueRowOk(r) ==
    /\ r.user_name # NullS
    /\ r.message # NullS
    /\ r.status \in IssueStatuses \cup {NullS}
    /\ BoolParamOk(r.is_read)

SendPostIssue(c, b) ==
    /\ CanSend(c)
    /\ IssueIdsLeft
    /\ req' = [req EXCEPT ![c] = [pc |-> "sent", op |-> "SrvPostIssue", id |-> Null, body |-> b, resp |-> NoResp]]
    /\ UNCHANGED <<parking_lots, parking_lots_id_seq, spots, users, schedules, schedules_id_seq, issues, issues_id_seq, today>>

\* POST /api/issues
SrvPostIssue(c) ==
    /\ InFlight(c, "SrvPostIssue")
    /\ LET b == req[c].body
           row == [id |-> issues_id_seq, user_name |-> PgParamS(b.user_name), message |-> b.message,
                   status |-> "open", is_read |-> "false", resolved_at |-> Null, updated_at |-> today]
       IN IF FalsyS(b.message)
          THEN /\ Respond(c, [code |-> 400, error |-> "Message is required", details |-> FALSE, data |-> Null])
               /\ UNCHANGED <<issues, issues_id_seq>>
          ELSE IF IssueRowOk(row)
          THEN /\ issues' = issues \cup {row}
               /\ issues_id_seq' = issues_id_seq + 1
               /\ Respond(c, [code |-> 201, error |-> "", details |-> FALSE, data |-> row.id])
          ELSE /\ Respond(c, [code |-> 500, error |-> "Failed to report issue", details |-> TRUE, data |-> Null])
               /\ UNCHANGED <<issues, issues_id_seq>>
    /\ UNCHANGED <<parking_lots, parking_lots_id_seq, spots, users, schedules, schedules_id_seq, today>>

ResolvedAtSet_Always(status) == TRUE

\* if (status === 'resolved') updates.push(`resolved_at = NOW()`)
ResolvedAtSet(status) == status = "resolved"

\* the statement PATCH /api/issues/:id builds: updates in order (a column and
\* the n of its $n placeholder, 0 where the column is set to NOW()), the
\* placeholder of the WHERE clause (paramCount at the end) and the values bound
PatchIssueQuery(id, b) ==
    LET hasRead   == b.is_read # UndefS
        hasStatus == ~ FalsyS(b.status)
        updates1  == IF hasRead THEN << [col |-> "is_read", param |-> 1] >> ELSE << >>
        values1   == IF hasRead THEN << b.is_read >> ELSE << >>
        count1    == IF hasRead THEN 2 ELSE 1
        updates2  == IF hasStatus
                     THEN updates1 \o << [col |-> "status", param |-> count1] >>
                            \o (IF ResolvedAtSet(b.status)
                                THEN << [col |-> "resolved_at", param |-> 0] >> ELSE << >>)
                     ELSE updates1
        values2   == IF hasStatus THEN Append(values1, b.status) ELSE values1
        count2    == IF hasStatus THEN count1 + 1 ELSE count1
    IN [updates |-> Append(updates2, [col |-> "updated_at", param |-> 0]),
        where   |-> count2,
        values  |-> Append(values2, id)]

\* the $n placeholders of the statement, one entry per occurrence
Placeholders(q) ==
    [i \in 1 .. Cardinality({j \in DOMAIN q.updates : q.updates[j].param # 0}) + 1 |->
        IF i <= Cardinality({j \in DOMAIN q.updates : q.updates[j].param # 0})
        THEN LET bound == {j \in DOMAIN q.updates : q.updates[j].param # 0}
                 j == CHOOSE k \in bound : Cardinality({l \in bound : l <= k}) = i
             IN q.updates[j].param
        ELSE q.where]

\* PostgreSQL accepts the statement with these values: the placeholders are
\* $1 .. $n for the n values bound
BindsAll(q) ==
    /\ Len(Placeholders(q)) = Len(q.values)
    /\ {Placeholders(q)[i] : i \in DOMAIN Placeholders(q)} = 1 .. Len(q.values)

\* what the UPDATE leaves in a column of a row holding old
ColumnAfter(q, col, old) ==
    IF \E i \in DOMAIN q.updates : q.updates[i].col = col
    THEN LET u == q.updates[CHOOSE i \in DOMAIN q.updates : q.updates[i].col = col]
         IN IF u.param = 0 THEN today ELSE q.values[u.param]
    ELSE old

PatchIssueRow(r, q) ==
    [r EXCEPT !.is_read     = ColumnAfter(q, "is_read", @),
              !.status      = ColumnAfter(q, "status", @),
              !.resolved_at = ColumnAfter(q, "resolved_at", @),
              !.updated_at  = ColumnAfter(q, "updated_at", @)]

SendPatchIssue(c, id, b) ==
    /\ CanSend(c)
    /\ req' = [req EXCEPT ![c] = [pc |-> "sent", op |-> "SrvPatchIssue", id |-> id, body |-> b, resp |-> NoResp]]
    /\ UNCHANGED <<parking_lots, parking_lots_id_seq, spots, users, schedules, schedules_id_seq, issues, issues_id_seq, today>>

SrvIssueNotFound == [code |-> 404, error |-> "Issue not found", details |-> FALSE, data |-> Null]

\* PATCH /api/issues/:id: a statement PostgreSQL cannot bind, a value that is
\* not a boolean for is_read or a row the table refuses end in the catch block
SrvPatchIssue(c) ==
    /\ InFlight(c, "SrvPatchIssue")
    /\ LET b    == req[c].body
           q    == PatchIssueQuery(req[c].id, b)
           hit  == {r \in issues : r.id = q.values[q.where]}
           new  == {PatchIssueRow(r, q) : r \in hit}
           fail == [code |-> 500, error |-> "Failed to update issue", details |-> TRUE, data |-> Null]
       IN IF ~ BindsAll(q) \/ (b.is_read # UndefS /\ ~ BoolParamOk(b.is_read))
          THEN Respond(c, fail) /\ UNCHANGED issues
          ELSE IF hit = {}
          THEN Respond(c, SrvIssueNotFound) /\ UNCHANGED issues
          ELSE IF \A r \in new : IssueRowOk(r)
          THEN /\ issues' = (issues \ hit) \cup new
               /\ Respond(c, [code |-> 200, error |-> "", details |-> FALSE, data |-> req[c].id])
          ELSE Respond(c, fail) /\ UNCHANGED issues
    /\ UNCHANGED <<parking_lots, parking_lots_id_seq, spots, users, schedules, schedules_id_seq, issues_id_seq, today>>

IssueIds == {1, MaxIssueId + 5}

IssuePostBodies ==
    { [user_name |-> "Ada", message |-> "Spot A3 is blocked"],
      [user_name |-> UndefS, message |-> "Spot A3 is blocked"],
      [user_name |-> "Ada", message |-> ""] }

IssuePatchBodies ==
    { [is_read |-> r, status |-> s] : r \in {UndefS, "true"}, s \in {UndefS, "resolved", "closed"} }
      \cup { [is_read |-> NullS, status |-> ""],
             [is_read |-> "maybe", status |-> UndefS],
             [is_read |-> UndefS, status |-> "bogus"] }

NextIssues(Cs) ==
    \/ \E c \in Cs, b \in IssuePostBodies : SendPostIssue(c, b)
    \/ \E c \in Cs : SrvPostIssue(c)
    \/ \E c \in Cs, id \in IssueIds, b \in IssuePatchBodies : SendPatchIssue(c, id, b)
    \/ \E c \in Cs : SrvPatchIssue(c)
    \/ Tick

\* issues reported and patched as the days pass
SpecIssues == Init /\ [][NextIssues({1})]_vars

\* this step is the handler of client c's issue patch answering
PatchesIssue(c) == InFlight(c, "SrvPatchIssue") /\ req'[c].pc = "done"

\* C27: whichever of is_read and status a PATCH /api/issues/:id carries, the
\* statement has as many $n placeholders as values bound; a patch of an
\* existing issue with a boolean (or null) is_read and a known status is
\* answered 200; and a patch answered 200 changes, in the issue named and in no
\* other, is_read and status only where the request gives them, updated_at, and
\* resolved_at exactly when the request's status is 'resolved'.
C27_PatchWellFormed ==
    [][\A c \in Clients :
        PatchesIssue(c) =>
          LET b == req[c].body
              q == PatchIssueQuery(req[c].id, b)
              valid == /\ b.is_read \in {UndefS, NullS, "true", "false"}
                       /\ FalsyS(b.status) \/ b.status \in IssueStatuses
          IN /\ Cardinality({i \in DOMAIN q.updates : q.updates[i].param # 0}) + 1 = Len(q.values)
             /\ ((\E r \in issues : r.id = req[c].id) /\ valid) => req'[c].resp.code = 200
             /\ IF req'[c].resp.code = 200
                THEN \E r \in issues :
                       /\ r.id = req[c].id
                       /\ issues' = (issues \ {r}) \cup
                            {[r EXCEPT !.is_read     = IF b.is_read # UndefS THEN b.is_read ELSE @,
                                       !.status      = IF FalsyS(b.status) THEN @ ELSE b.status,
                                       !.resolved_at = IF b.status = "resolved" THEN today ELSE @,
                                       !.updated_at  = today]}
                ELSE issues' = issues
             /\ UNCHANGED <<parking_lots, spots, users, schedules, issues_id_seq>>]_vars

\* C27 witness: an issue was patched on day 0 with is_read and status
\* 'resolved' together, and a patch on day 1 carrying neither field left both
\* and resolved_at as they were and moved updated_at.
C27_Witness ==
    \E c \in Clients, r \in issues :
        /\ req[c].pc = "done" /\ req[c].op = "SrvPatchIssue" /\ req[c].resp.code = 200
        /\ req[c].body = [is_read |-> UndefS, status |-> UndefS]
        /\ r.id = req[c].id /\ r.is_read = "true" /\ r.status = "resolved"
        /\ r.resolved_at = 0 /\ r.updated_at = 1

SendDeleteIssue(c, id) ==
    /\ CanSend(c)
    /\ req' = [req EXCEPT ![c] = [pc |-> "sent", op |-> "SrvDeleteIssue", id |-> id, body |-> NoBody, resp |-> NoResp]]
    /\ UNCHANGED <<parking_lots, parking_lots_id_seq, spots, users, schedules, schedules_id_seq, issues, issues_id_seq, today>>

\* DELETE /api/issues/:id
SrvDeleteIssue(c) ==
    /\ InFlight(c, "SrvDeleteIssue")
    /\ LET hit == {r \in issues : r.id = req[c].id}
       IN IF hit = {}
          THEN Respond(c, SrvIssueNotFound) /\ UNCHANGED issues
          ELSE /\ issues' = issues \ hit
               /\ Respond(c, [code |-> 200, error |-> "", details |-> FALSE, data |-> req[c].id])
    /\ UNCHANGED <<parking_lots, parking_lots_id_seq, spots, users, schedules, schedules_id_seq, issues_id_seq, today>>

\* the update and delete handlers keyed by :id, by the table they address
KeyedScheduleOps == {"PgpPutSchedule", "PgpDeleteSchedule"}

KeyedLotOps == LotPutOps \cup LotDeleteOps

KeyedUserOps == {"PgpDeleteUser"}

KeyedIssueOps == {"SrvPatchIssue", "SrvDeleteIssue"}

\* the ids of the table a keyed handler addresses
KeyedIds(op) ==
    IF op \in KeyedScheduleOps THEN {s.id : s \in schedules}
    ELSE IF op \in KeyedLotOps THEN {l.id : l \in parking_lots}
    ELSE IF op \in KeyedUserOps THEN {u.id : u \in users}
    ELSE {r.id : r \in issues}

KeyedScheduleBodies == {BaseBody, NoBody}

KeyedLotBodies == {BaseLot, [BaseLot EXCEPT !.name = UndefS]}

NextKeyed(Cs) ==
    \/ \E c \in Cs, id \in ScheduleIds, b \in KeyedScheduleBodies : SendPutSchedule(c, id, b)
    \/ \E c \in Cs, id \in ScheduleIds : SendDeleteSchedule(c, id)
    \/ \E c \in Cs : PgpPutSchedule(c)
    \/ \E c \in Cs : PgpDeleteSchedule(c)
    \/ \E c \in Cs, op \in LotPutOps, id \in LotIds, b \in KeyedLotBodies : SendPutLot(c, op, id, b)
    \/ \E c \in Cs, op \in LotDeleteOps, id \in LotIds : SendDeleteLot(c, op, id)
    \/ \E c \in Cs : SrvPutLot(c)
    \/ \E c \in Cs : PgpPutLot(c)
    \/ \E c \in Cs : SrvDeleteLot(c)
    \/ \E c \in Cs : PgpDeleteLot(c)
    \/ \E c \in Cs, id \in UserIds : SendDeleteUser(c, id)
    \/ \E c \in Cs : PgpDeleteUser(c)
    \/ \E c \in Cs, b \in IssuePostBodies : SendPostIssue(c, b)
    \/ \E c \in Cs : SrvPostIssue(c)
    \/ \E c \in Cs, id \in IssueIds, b \in IssuePatchBodies : SendPatchIssue(c, id, b)
    \/ \E c \in Cs : SrvPatchIssue(c)
    \/ \E c \in Cs, id \in IssueIds : SendDeleteIssue(c, id)
    \/ \E c \in Cs : SrvDeleteIssue(c)

\* rows updated and deleted by id, in every table
SpecKeyed == Init /\ [][NextKeyed({1})]_vars

\* this step is a keyed handler answering client c's request for an id that
\* matches no row
AnswersUnknownId(c) ==
    /\ req[c].pc = "sent" /\ req'[c].pc = "done"
    /\ req[c].op \in KeyedScheduleOps \cup KeyedLotOps \cup KeyedUserOps \cup KeyedIssueOps
    /\ req[c].id \notin KeyedIds(req[c].op)

\* C28: an update or a delete keyed by an id that matches no row of its table
\* is answered 404 and leaves every table as it was.
C28_UnknownIdNotFound ==
    [][\A c \in Clients :
        AnswersUnknownId(c) =>
          /\ req'[c].resp.code = 404
          /\ UNCHANGED <<parking_lots, spots, users, schedules, issues>>]_vars

(***************************************************************************)
(* Requests and their responses                                            *)
(***************************************************************************)
SendGet(c, op) ==
    /\ CanSend(c)
    /\ req' = [req EXCEPT ![c] = [pc |-> "sent", op |-> op, id |-> Null, body |-> NoBody, resp |-> NoResp]]
    /\ UNCHANGED <<parking_lots, parking_lots_id_seq, spots, users, schedules, schedules_id_seq, issues, issues_id_seq, today>>

\* GET /health of part_001 reads test_table, which no script of the repository
\* creates: the query succeeds or fails as the deployment has it
PgpHealth(c) ==
    /\ InFlight(c, "PgpHealth")
    /\ \E connected \in BOOLEAN :
          IF connected
          THEN Respond(c, [code |-> 200, error |-> "", details |-> FALSE, data |-> Null])
          ELSE Respond(c, [code |-> 503, error |-> "unhealthy", details |-> TRUE, data |-> Null])
    /\ UNCHANGED <<parking_lots, parking_lots_id_seq, spots, users, schedules, schedules_id_seq, issues, issues_id_seq, today>>

\* the 404 handler for undefined routes, part_001
PgpNoRoute(c) ==
    /\ InFlight(c, "PgpNoRoute")
    /\ Respond(c, [code |-> 404, error |-> "Endpoint not found", details |-> FALSE, data |-> Null])
    /\ UNCHANGED <<parking_lots, parking_lots_id_seq, spots, users, schedules, schedules_id_seq, issues, issues_id_seq, today>>

\* the 404 handler for undefined routes, server.js
SrvNoRoute(c) ==
    /\ InFlight(c, "SrvNoRoute")
    /\ Respond(c, [code |-> 404, error |-> "Route not found", details |-> FALSE, data |-> Null])
    /\ UNCHANGED <<parking_lots, parking_lots_id_seq, spots, users, schedules, schedules_id_seq, issues, issues_id_seq, today>>

GetOps == {"PgpHealth", "PgpNoRoute", "SrvNoRoute"}

NextResponds(Cs) ==
    \/ NextAccounts(Cs, AccountBodies)
    \/ \E c \in Cs, op \in GetOps : SendGet(c, op)
    \/ \E c \in Cs : PgpHealth(c)
    \/ \E c \in Cs : PgpNoRoute(c)
    \/ \E c \in Cs : SrvNoRoute(c)
    \/ \E c \in Cs, b \in IssuePostBodies : SendPostIssue(c, b)
    \/ \E c \in Cs : SrvPostIssue(c)
    \/ \E c \in Cs, id \in IssueIds, b \in IssuePatchBodies : SendPatchIssue(c, id, b)
    \/ \E c \in Cs : SrvPatchIssue(c)

\* the handler (or its next step) of client c's request runs
Handle(c) ==
    \/ PgpPostUserSelect(c)
    \/ PgpPostUserInsert(c)
    \/ PgpDeleteUser(c)
    \/ PgpLogin(c)
    \/ PgpHealth(c)
    \/ PgpNoRoute(c)
    \/ SrvNoRoute(c)
    \/ SrvPostIssue(c)
    \/ SrvPatchIssue(c)

\* requests of one client to both services; the event loop runs a handler's
\* next step once its database call has settled, and every call settles
SpecResponds == Init /\ [][NextResponds({1})]_vars /\ WF_vars(Handle(1))

\* client c's request is with its handler
Pending(c) == req[c].pc \in {"sent", "checked"}

Answered(c) == req[c].pc = "done"

\* the response of client c's request is written once, by the step that ends
\* its handler, and stays as written until c sends the next request
OneResponse(c) ==
    /\ Pending(c) => req[c].resp = NoResp
    /\ req'[c].resp # req[c].resp =>
          \/ Pending(c) /\ req'[c].pc = "done" /\ req'[c].resp.code # 0
          \/ Answered(c) /\ req'[c].pc = "sent" /\ req'[c].resp = NoResp
    /\ (Pending(c) /\ req'[c].pc = "done") => req'[c].resp.code # 0

SuccessOr4xxOr500 == (200 .. 299) \cup (400 .. 499) \cup {500}

\* C29 (as stated): every request eventually receives exactly one response,
\* and its status is a success, a 4xx or 500.
C29_ExactlyOneResponse ==
    /\ [][\A c \in {1} : OneResponse(c)]_vars
    /\ \A c \in {1} : Pending(c) ~> Answered(c)
    /\ [](\A c \in {1} : Answered(c) => req[c].resp.code \in SuccessOr4xxOr500)

\* C29 (amended): every request eventually receives exactly one response, and
\* its status is a success, a 4xx, 500 or the 503 of the health check.
C29_ExactlyOneResponseOr503 ==
    /\ [][\A c \in {1} : OneResponse(c)]_vars
    /\ \A c \in {1} : Pending(c) ~> Answered(c)
    /\ [](\A c \in {1} : Answered(c) => req[c].resp.code \in SuccessOr4xxOr500 \cup {503})

\* C29 witness: a POST /api/users whose INSERT the database refused has been
\* answered 500 through handleError.
C29_Witness ==
    /\ req[1].pc = "done" /\ req[1].op = "PgpPostUser"
    /\ req[1].resp = PgpError

=============================================================================
